---- MODULE Spec2Model ----
(***************************************************************************)
(* The interactive diff/patch review engine of pywikibot/diff.py:          *)
(* PatchManager (construction, get_blocks, _generate_super_hunks,          *)
(* review_hunks, apply), Hunk and _SuperHunk.                              *)
(*                                                                         *)
(* Ranges are kept as in the source: 0-based and half-open, (i1, i2) is    *)
(* written <<i1, i2>>.  Python tuples are TLA+ tuples, so a Python index k *)
(* is the TLA+ index k+1.  A hunk object is designated by its 1-based      *)
(* index in self.hunks.  An optional integer (a value that may be None) is *)
(* <<>> for None and <<n>> for the integer n.                              *)
(***************************************************************************)
EXTENDS Integers, Sequences, FiniteSets, TLC

\* Bounds of the model: the longest text (in lines), the largest context,
\* and the longest run of unchanged lines between two hunks of SpecGaps.
MaxLen == 4
MaxContext == 1
MaxGap == 3

\* Hunk.APPR, Hunk.NOT_APPR, Hunk.PENDING
APPR == 1
NOT_APPR == -1
PENDING == 0

VARIABLES
    a,            \* PatchManager.a : list of lines of text_a
    b,            \* PatchManager.b : list of lines of text_b
    context,      \* PatchManager.context
    groups,       \* PatchManager.groups
    hunks,        \* PatchManager.hunks (with each hunk's reviewed status)
    blocks,       \* PatchManager.blocks
    _super_hunks, \* PatchManager._super_hunks (grouping made at construction)
    diff,         \* Hunk.diff of a hunk being built : list of lines (of chars)
    diff_text,    \* Hunk.diff_text of that hunk : list of chars and colors
    super_hunks,  \* review_hunks: local super_hunks
    position,     \* review_hunks: local position (optional integer)
    caller,       \* the method review_hunks returns to: "apply", "review_hunks",
                  \* "cherry_pick" (the apply() that cherry_pick called);
                  \* "none" while no review is running
    error,        \* the last command made review_hunks call pywikibot.error
    l_text,       \* the list returned by the last apply()
    shown,        \* the help lines the last command passed to
                  \* pywikibot.output (None when it showed no help)
    out,          \* cherry_pick: what it passed to pywikibot.output so far
    text,         \* cherry_pick: the text it returned
    pc            \* "idle", "review" (blocked in pywikibot.input),
                  \* "reviewed", "applied" (the call returned), or the
                  \* exception that ended the call: "AssertionError_sanity"
                  \* (end of apply), "AssertionError_status"
                  \* (_SuperHunk.reviewed), "IndexError", "TypeError";
                  \* "cherry_pick" (in cherry_pick, before patch.apply()),
                  \* "picked" (cherry_pick returned)

vars == <<a, b, context, groups, hunks, blocks, _super_hunks, super_hunks,
          position, caller, error, l_text, shown, out, text, pc, diff,
          diff_text>>

----------------------------------------------------------------------------
(* Python helpers *)

Min(x, y) == IF x <= y THEN x ELSE y
Max(x, y) == IF x >= y THEN x ELSE y

\* s[i:j] for a list s (negative indices count from the end, all clamped)
Slice(s, i, j) ==
    LET n  == Len(s)
        lo == IF i < 0 THEN Max(n + i, 0) ELSE Min(i, n)
        hi == IF j < 0 THEN Max(n + j, 0) ELSE Min(j, n)
    IN  SubSeq(s, lo + 1, hi)

\* ''.join(l)
RECURSIVE Join(_)
Join(l) == IF l = <<>> THEN "" ELSE Head(l) \o Join(Tail(l))

----------------------------------------------------------------------------
(* The two texts and their alignment.                                      *)
(* An opcode is <<tag, i1, i2, j1, j2>>.  SequenceMatcher.get_opcodes()    *)
(* returns opcodes that are contiguous from (0, 0), alternate between      *)
(* "equal" and one of "replace", "delete", "insert", and have no empty     *)
(* "equal".  The texts are drawn with their opcodes: the lines of a are    *)
(* pairwise distinct, b repeats the lines of a in the "equal" ranges and   *)
(* has lines of its own elsewhere, so that the opcodes are exactly the     *)
(* ones get_opcodes() computes for (a, b).                                 *)

Changes(i, j) ==
    {<<"replace", i, i + x, j, j + y>> :
        x \in 1..(MaxLen - i), y \in 1..(MaxLen - j)}
    \cup {<<"delete", i, i + x, j, j>> : x \in 1..(MaxLen - i)}
    \cup {<<"insert", i, i, j, j + y>> : y \in 1..(MaxLen - j)}

Equals(i, j) ==
    {<<"equal", i, i + k, j, j + k>> : k \in 1..Min(MaxLen - i, MaxLen - j)}

RECURSIVE Opcodes(_, _, _)
Opcodes(i, j, prev) ==
    LET nxt == (IF prev # "equal" /\ prev # "start" THEN {} ELSE Changes(i, j))
               \cup (IF prev = "equal" THEN {} ELSE Equals(i, j))
    IN  {<<>>} \cup
        UNION { { <<op>> \o rest :
                    rest \in Opcodes(op[3], op[5],
                                     IF op[1] = "equal" THEN "equal" ELSE "change") }
                : op \in nxt }

\* the opcodes of a list of segments <<tag, n>>, from line i of a and line
\* j of b: n lines are equal, n lines replace n lines, n lines are deleted
\* or n lines are inserted
RECURSIVE Script(_, _, _)
Script(segs, i, j) ==
    IF segs = <<>> THEN <<>>
    ELSE LET tag == Head(segs)[1]
             n   == Head(segs)[2]
             i2  == IF tag = "insert" THEN i ELSE i + n
             j2  == IF tag = "delete" THEN j ELSE j + n
         IN  << <<tag, i, i2, j, j2>> >> \o Script(Tail(segs), i2, j2)

\* texts with three changes of one line, separated by g1 and by g2 unchanged
\* lines
GapOpcodes ==
    { Script(<< <<k1, 1>>, <<"equal", g1>>, <<"delete", 1>>,
                <<"equal", g2>>, <<"replace", 1>> >>, 0, 0) :
        k1 \in {"insert", "replace"}, g1 \in 1..MaxGap, g2 \in 1..MaxGap }

LenA(codes) == IF codes = <<>> THEN 0 ELSE codes[Len(codes)][3]
LenB(codes) == IF codes = <<>> THEN 0 ELSE codes[Len(codes)][5]

\* the opcode covering line i (0-based) of a, resp. line j of b
OpOfA(codes, i) == CHOOSE k \in 1..Len(codes) : codes[k][2] <= i /\ i < codes[k][3]
OpOfB(codes, j) == CHOOSE k \in 1..Len(codes) : codes[k][4] <= j /\ j < codes[k][5]

\* text_a.splitlines(True): every line keeps its line end
TextA(codes) == [i \in 1..LenA(codes) |-> "a" \o ToString(i - 1) \o "\n"]
TextB(codes) ==
    [j \in 1..LenB(codes) |->
        LET op == codes[OpOfB(codes, j - 1)]
        IN  IF op[1] = "equal"
            THEN TextA(codes)[(j - 1) - op[4] + op[2] + 1]
            ELSE "b" \o ToString(j - 1) \o "\n"]

\* SequenceMatcher.get_grouped_opcodes(n), from difflib:
\*   codes = self.get_opcodes()
\*   if not codes: codes = [("equal", 0, 1, 0, 1)]
\*   if codes[0][0] == 'equal':  codes[0]  = tag, max(i1, i2-n), i2, max(j1, j2-n), j2
\*   if codes[-1][0] == 'equal': codes[-1] = tag, i1, min(i2, i1+n), j1, min(j2, j1+n)
\*   nn = n + n; group = []
\*   for tag, i1, i2, j1, j2 in codes:
\*       if tag == 'equal' and i2-i1 > nn:
\*           group.append((tag, i1, min(i2, i1+n), j1, min(j2, j1+n)))
\*           yield group
\*           group = []
\*           i1, j1 = max(i1, i2-n), max(j1, j2-n)
\*       group.append((tag, i1, i2, j1 ,j2))
\*   if group and not (len(group)==1 and group[0][0] == 'equal'): yield group
FixFirst(codes, n) ==
    LET c == codes[1]
    IN  IF c[1] = "equal"
        THEN [codes EXCEPT ![1] =
                <<c[1], Max(c[2], c[3] - n), c[3], Max(c[4], c[5] - n), c[5]>>]
        ELSE codes

FixLast(codes, n) ==
    LET c == codes[Len(codes)]
    IN  IF c[1] = "equal"
        THEN [codes EXCEPT ![Len(codes)] =
                <<c[1], c[2], Min(c[3], c[2] + n), c[4], Min(c[5], c[4] + n)>>]
        ELSE codes

\* the loop: st.out are the groups yielded so far, st.group the current one
RECURSIVE GroupLoop(_, _, _, _)
GroupLoop(codes, k, n, st) ==
    IF k > Len(codes) THEN st
    ELSE LET c == codes[k]
             cut == c[1] = "equal" /\ c[3] - c[2] > n + n
             closed == Append(st.group,
                          <<c[1], c[2], Min(c[3], c[2] + n), c[4], Min(c[5], c[4] + n)>>)
             rest == <<c[1], Max(c[2], c[3] - n), c[3], Max(c[4], c[5] - n), c[5]>>
         IN  GroupLoop(codes, k + 1, n,
                IF cut
                THEN [out |-> Append(st.out, closed), group |-> <<rest>>]
                ELSE [out |-> st.out, group |-> Append(st.group, c)])

get_grouped_opcodes(opcodes, n) ==
    LET codes0 == IF opcodes = <<>> THEN << <<"equal", 0, 1, 0, 1>> >> ELSE opcodes
        codes  == FixLast(FixFirst(codes0, n), n)
        st     == GroupLoop(codes, 1, n, [out |-> <<>>, group |-> <<>>])
    IN  IF st.group # <<>> /\ ~(Len(st.group) = 1 /\ st.group[1][1] = "equal")
        THEN Append(st.out, st.group)
        ELSE st.out

----------------------------------------------------------------------------
(* Hunk and PatchManager.__init__ *)

\* mutant of format_range_unified: the first line is numbered 0
format_range_unified_zero_based(start, stop) ==
    LET beginning == start
        length    == stop - start
    IN  IF length = 1 THEN ToString(beginning)
        ELSE ToString(IF length = 0 THEN beginning - 1 ELSE beginning)
             \o "," \o ToString(length)

\* difflib._format_range_unified(start, stop):
\*   beginning = start + 1     # lines start numbering with one
\*   length = stop - start
\*   if length == 1: return '{}'.format(beginning)
\*   if not length: beginning -= 1   # empty ranges begin at line just before
\*   return '{},{}'.format(beginning, length)
format_range_unified(start, stop) ==
    LET beginning == start + 1
        length    == stop - start
    IN  IF length = 1 THEN ToString(beginning)
        ELSE ToString(IF length = 0 THEN beginning - 1 ELSE beginning)
             \o "," \o ToString(length)

\* Hunk.get_header_text(a_rng, b_rng, affix)
get_header_text(a_rng, b_rng, affix) ==
    affix \o " -" \o format_range_unified(a_rng[1], a_rng[2])
          \o " +" \o format_range_unified(b_rng[1], b_rng[2])
          \o " " \o affix

\* Hunk.get_header
get_header(a_rng, b_rng) == get_header_text(a_rng, b_rng, "@@") \o "\n"

\* Hunk.__init__: a_rng, b_rng, the header and the initial status
Hunk(group) ==
    LET first == group[1]
        last  == group[Len(group)]
    IN  [a_rng |-> <<first[2], last[3]>>,
         b_rng |-> <<first[4], last[5]>>,
         header |-> get_header(<<first[2], last[3]>>, <<first[4], last[5]>>),
         reviewed |-> PENDING]

\* Hunk.apply: self.b[self.b_rng[0]:self.b_rng[1]]
HunkApply(text_b, hunk) == Slice(text_b, hunk.b_rng[1], hunk.b_rng[2])

\* PatchManager.__init__, the loop that builds self.hunks with pre_context
\* and post_context (the texts only enter by len(self.a))
MakeHunks(grps, len_a) ==
    LET H(k) == Hunk(grps[k])
        pre(k) == IF k = 1 THEN H(k).a_rng[1]
                  ELSE H(k).a_rng[1] - H(k - 1).a_rng[2]
        post(k) == IF k < Len(grps) THEN pre(k + 1)
                   ELSE len_a - H(k).a_rng[2]
    IN  [k \in 1..Len(grps) |->
            [a_rng |-> H(k).a_rng, b_rng |-> H(k).b_rng,
             header |-> H(k).header, reviewed |-> H(k).reviewed,
             pre_context |-> pre(k), post_context |-> post(k)]]

\* mutant of BlockLoop: "<=" for "<" in the test for unchanged text
RECURSIVE BlockLoop_le(_, _, _, _)
BlockLoop_le(grps, k, i2, blks) ==
    IF k > Len(grps) THEN [i2 |-> i2, blocks |-> blks]
    ELSE LET first == grps[k][1]
             last  == grps[k][Len(grps[k])]
             i1    == first[2]
             unchanged == IF i2 <= i1
                          THEN << <<0 - 1, <<i2, i1>>, <<0 - 1, 0 - 1>> >> >>
                          ELSE <<>>
             rng   == <<k - 1, <<first[2], last[3]>>, <<first[4], last[5]>> >>
         IN  BlockLoop_le(grps, k + 1, last[3], blks \o unchanged \o <<rng>>)

\* PatchManager.get_blocks: a block is <<hunk index or -1, (i1, i2), (j1, j2)>>
RECURSIVE BlockLoop(_, _, _, _)
BlockLoop(grps, k, i2, blks) ==
    IF k > Len(grps) THEN [i2 |-> i2, blocks |-> blks]
    ELSE LET first == grps[k][1]
             last  == grps[k][Len(grps[k])]
             i1    == first[2]
             unchanged == IF i2 < i1
                          THEN << <<0 - 1, <<i2, i1>>, <<0 - 1, 0 - 1>> >> >>
                          ELSE <<>>
             rng   == <<k - 1, <<first[2], last[3]>>, <<first[4], last[5]>> >>
         IN  BlockLoop(grps, k + 1, last[3], blks \o unchanged \o <<rng>>)

\* mutant of get_blocks: the unchanged text after the last hunk is forgotten
get_blocks_no_tail(grps, len_a) == BlockLoop(grps, 1, 0, <<>>).blocks

get_blocks(grps, len_a) ==
    LET r == BlockLoop(grps, 1, 0, <<>>)
    IN  IF r.i2 < len_a
        THEN Append(r.blocks, <<0 - 1, <<r.i2, len_a>>, <<0 - 1, 0 - 1>> >>)
        ELSE r.blocks

----------------------------------------------------------------------------
(* _SuperHunk and PatchManager._generate_super_hunks.                      *)
(* H is the list self.hunks; a list of hunks is a list of indices in H.    *)

\* _SuperHunk.__init__ (hs[0] of an empty list raises IndexError, see
\* SuperHunkRaises)
_SuperHunk(H, hs) ==
    [_hunks |-> hs,
     a_rng |-> <<H[hs[1]].a_rng[1], H[hs[Len(hs)]].a_rng[2]>>,
     b_rng |-> <<H[hs[1]].b_rng[1], H[hs[Len(hs)]].b_rng[2]>>,
     pre_context |-> H[hs[1]].pre_context,
     post_context |-> H[hs[1]].post_context]

\* mutant of split: only the first hunk is kept
split_drop(H, sh) == <<_SuperHunk(H, <<sh._hunks[1]>>)>>

\* _SuperHunk.split
split(H, sh) == [k \in 1..Len(sh._hunks) |-> _SuperHunk(H, <<sh._hunks[k]>>)]

\* mutant of ConnectLoop: hunks are connected when at most context lines
\* lie between them
RECURSIVE ConnectLoop_ctx(_, _, _, _, _)
ConnectLoop_ctx(H, ctx, hs, k, shs) ==
    IF k > Len(hs) THEN shs
    ELSE LET super_hunk == shs[Len(shs)]
         IN  ConnectLoop_ctx(H, ctx, hs, k + 1,
                IF super_hunk = <<>> \/ H[hs[k]].pre_context <= ctx
                THEN [shs EXCEPT ![Len(shs)] = Append(super_hunk, hs[k])]
                ELSE Append(shs, <<hs[k]>>))

\* the lists of hunks _generate_super_hunks wraps into _SuperHunk objects.
\* is_list: the argument is a list (None, i.e. self.hunks); a generator is
\* always true, so that "if not hunks" only returns for an empty list.
RECURSIVE ConnectLoop(_, _, _, _, _)
ConnectLoop(H, ctx, hs, k, shs) ==
    IF k > Len(hs) THEN shs
    ELSE LET super_hunk == shs[Len(shs)]
         IN  ConnectLoop(H, ctx, hs, k + 1,
                IF super_hunk = <<>> \/ H[hs[k]].pre_context <= ctx * 2
                THEN [shs EXCEPT ![Len(shs)] = Append(super_hunk, hs[k])]
                ELSE Append(shs, <<hs[k]>>))

\* mutant of SuperHunkLists: without context the hunks make one list
SuperHunkLists_one_group(H, ctx, hs, is_list) ==
    IF is_list /\ hs = <<>> THEN <<>>
    ELSE IF ctx # 0 THEN ConnectLoop(H, ctx, hs, 1, << <<>> >>)
    ELSE <<hs>>

SuperHunkLists(H, ctx, hs, is_list) ==
    IF is_list /\ hs = <<>> THEN <<>>
    ELSE IF ctx # 0 THEN ConnectLoop(H, ctx, hs, 1, << <<>> >>)
    ELSE [k \in 1..Len(hs) |-> <<hs[k]>>]

\* _SuperHunk(sh) for sh in super_hunks raises IndexError on an empty sh
SuperHunkRaises(H, ctx, hs, is_list) ==
    \E k \in 1..Len(SuperHunkLists(H, ctx, hs, is_list)) :
        SuperHunkLists(H, ctx, hs, is_list)[k] = <<>>

_generate_super_hunks(H, ctx, hs, is_list) ==
    LET lists == SuperHunkLists(H, ctx, hs, is_list)
    IN  [k \in 1..Len(lists) |-> _SuperHunk(H, lists[k])]

\* PatchManager._get_context_range(super_hunk)
_get_context_range(ctx, sh) ==
    LET a0 == sh.a_rng[1]
        a1 == sh.a_rng[2]
        b0 == sh.b_rng[1]
        b1 == sh.b_rng[2]
    IN  << <<a0 - Min(sh.pre_context, ctx), a1 + Min(sh.post_context, ctx)>>,
           <<b0 - Min(sh.pre_context, ctx), b1 + Min(sh.post_context, ctx)>> >>

\* _SuperHunk.reviewed (getter): the assertion, then the value
ReviewedAsserts(H, sh) ==
    Cardinality({H[sh._hunks[k]].reviewed : k \in 1..Len(sh._hunks)}) # 1
reviewed(H, sh) == H[sh._hunks[1]].reviewed

\* mutant of set_reviewed: only the first hunk gets the status
set_reviewed_first(H, sh, value) ==
    [h \in 1..Len(H) |->
        IF sh._hunks[1] = h
        THEN [H[h] EXCEPT !.reviewed = value]
        ELSE H[h]]

\* _SuperHunk.reviewed (setter)
set_reviewed(H, sh, value) ==
    [h \in 1..Len(H) |->
        IF \E k \in 1..Len(sh._hunks) : sh._hunks[k] = h
        THEN [H[h] EXCEPT !.reviewed = value]
        ELSE H[h]]

----------------------------------------------------------------------------
(* PatchManager.review_hunks *)

None == <<>>
Some(n) == <<n>>

\* find_pending(start, end): [exc |-> the status assertion failed,
\*                            val |-> the index found, or None]
RECURSIVE FindLoop(_, _, _, _, _)
FindLoop(H, shs, p, end, step) ==
    IF (step = 1 /\ p >= end) \/ (step = -1 /\ p <= end)
    THEN [exc |-> FALSE, val |-> None]
    ELSE IF ReviewedAsserts(H, shs[p + 1])
    THEN [exc |-> TRUE, val |-> None]
    ELSE IF reviewed(H, shs[p + 1]) = PENDING
    THEN [exc |-> FALSE, val |-> Some(p)]
    ELSE FindLoop(H, shs, p + step, end, step)

find_pending(H, shs, start, end) ==
    FindLoop(H, shs, start, end, IF start > end THEN -1 ELSE 1)

\* mutant of AnyPending: the last super hunk is not looked at
AnyPending_but_last(H, shs) ==
    \E k \in 1..(Len(shs) - 1) : \E m \in 1..Len(shs[k]._hunks) :
        H[shs[k]._hunks[m]].reviewed = PENDING

\* the condition of the while loop
AnyPending(H, shs) ==
    \E k \in 1..Len(shs) : \E m \in 1..Len(shs[k]._hunks) :
        H[shs[k]._hunks[m]].reviewed = PENDING

\* the locals of one iteration, in a state blocked in pywikibot.input
super_hunk == super_hunks[position[1] + 1]
next_pending == find_pending(hunks, super_hunks, position[1] + 1, Len(super_hunks)).val
prev_pending == find_pending(hunks, super_hunks, position[1] - 1, -1).val

answers ==
    {"y", "n", "q", "a", "d", "g"}
    \cup (IF next_pending # None THEN {"j"} ELSE {})
    \cup (IF position[1] < Len(super_hunks) - 1 THEN {"J"} ELSE {})
    \cup (IF prev_pending # None THEN {"k"} ELSE {})
    \cup (IF position[1] > 0 THEN {"K"} ELSE {})
    \cup (IF Len(super_hunk._hunks) > 1 THEN {"s"} ELSE {})
    \cup {"?"}

\* help_msg
help_msg(answer) ==
    CASE answer = "y" -> "accept this hunk"
      [] answer = "n" -> "do not accept this hunk"
      [] answer = "q" -> "do not accept this hunk and quit reviewing"
      [] answer = "a" -> "accept this hunk and all other pending"
      [] answer = "d" -> "do not apply this hunk or any of the later hunks in the file"
      [] answer = "g" -> "select a hunk to go to"
      [] answer = "j" -> "leave this hunk undecided, see next undecided hunk"
      [] answer = "J" -> "leave this hunk undecided, see next hunk"
      [] answer = "k" -> "leave this hunk undecided, see previous undecided hunk"
      [] answer = "K" -> "leave this hunk undecided, see previous hunk"
      [] answer = "s" -> "split this hunk into smaller ones"
      [] answer = "?" -> "help"

\* the list answers in the order the code builds it
answers_list ==
    LET offered == answers
    IN  SelectSeq(<<"y", "n", "q", "a", "d", "g", "j", "J", "k", "K", "s", "?">>,
                  LAMBDA answer : answer \in offered)

\* mutant of help_lines: the help of every command is shown
help_lines_all ==
    [k \in 1..12 |->
        LET answer == <<"y", "n", "q", "a", "d", "g", "j", "J", "k", "K", "s", "?">>[k]
        IN  <<answer, help_msg(answer)>>]

\* the lines of the help: '{0} -> {1}'.format(answer, help_msg[answer]) for
\* answer in answers, a line being the pair of its two arguments
help_lines ==
    LET list == answers_list
    IN  [k \in 1..Len(list) |-> <<list[k], help_msg(list[k])>>]

\* mutant of ApplyLoop: the text of a hunk that is not approved is left out
RECURSIVE ApplyLoop_drop(_, _, _, _, _, _)
ApplyLoop_drop(text_a, text_b, blks, H, k, l) ==
    IF k > Len(blks) THEN l
    ELSE LET hunk_idx == blks[k][1]
             i1 == blks[k][2][1]
             i2 == blks[k][2][2]
             j1 == blks[k][3][1]
             j2 == blks[k][3][2]
         IN  ApplyLoop_drop(text_a, text_b, blks, H, k + 1,
                IF hunk_idx < 0 THEN l \o Slice(text_a, i1, i2)
                ELSE IF H[hunk_idx + 1].reviewed = APPR
                     THEN l \o Slice(text_b, j1, j2)
                     ELSE l)

\* mutant of ApplyLoop: text b is cut with the range of a
RECURSIVE ApplyLoop_a_range(_, _, _, _, _, _)
ApplyLoop_a_range(text_a, text_b, blks, H, k, l) ==
    IF k > Len(blks) THEN l
    ELSE LET hunk_idx == blks[k][1]
             i1 == blks[k][2][1]
             i2 == blks[k][2][2]
         IN  ApplyLoop_a_range(text_a, text_b, blks, H, k + 1,
                IF hunk_idx < 0 THEN l \o Slice(text_a, i1, i2)
                ELSE IF H[hunk_idx + 1].reviewed = APPR
                     THEN l \o Slice(text_b, i1, i2)
                     ELSE l \o Slice(text_a, i1, i2))

\* PatchManager.apply, the part that builds l_text from self.blocks
RECURSIVE ApplyLoop(_, _, _, _, _, _)
ApplyLoop(text_a, text_b, blks, H, k, l) ==
    IF k > Len(blks) THEN l
    ELSE LET hunk_idx == blks[k][1]
             i1 == blks[k][2][1]
             i2 == blks[k][2][2]
             j1 == blks[k][3][1]
             j2 == blks[k][3][2]
         IN  ApplyLoop(text_a, text_b, blks, H, k + 1,
                IF hunk_idx < 0 THEN l \o Slice(text_a, i1, i2)
                ELSE IF H[hunk_idx + 1].reviewed = APPR
                     THEN l \o Slice(text_b, j1, j2)
                     ELSE l \o Slice(text_a, i1, i2))

apply_text(text_a, text_b, blks, H) == ApplyLoop(text_a, text_b, blks, H, 1, <<>>)

\* the sanity check at the end of apply()
SanityFails(text_b, H, l) ==
    /\ \A h \in 1..Len(H) : H[h].reviewed = APPR
    /\ Join(l) # Join(text_b)

\* the rest of apply() once no hunk is pending (H: the hunks as they are then)
ApplyTail(H) ==
    LET l == apply_text(a, b, blocks, H)
    IN  IF SanityFails(b, H, l)
        THEN pc' = "AssertionError_sanity" /\ l_text' = l_text
        ELSE pc' = "applied" /\ l_text' = l

\* what cherry_pick passes to pywikibot.output: a title, the diff_text of
\* the hunk with the given (1-based) index in patch.hunks, or 'None.'
Title(title) == [kind |-> title, hunk |-> 0]
DiffText(h) == [kind |-> "diff_text", hunk |-> h]

\* cherry_pick, up to text_list = patch.apply()
AllChanges(H) ==
    <<Title("  ALL CHANGES  ")>> \o [h \in 1..Len(H) |-> DiffText(h)]
        \o <<Title("  REVIEW CHANGES  ")>>

\* mutant of ApprovedChanges: every hunk is reported once one is approved
ApprovedChanges_all(H) ==
    <<Title("  APPROVED CHANGES  ")>> \o
    (IF \E h \in 1..Len(H) : H[h].reviewed = APPR
     THEN [h \in 1..Len(H) |-> DiffText(h)]
     ELSE <<Title("None.")>>)

\* cherry_pick, after text_list = patch.apply()
ApprovedChanges(H) ==
    <<Title("  APPROVED CHANGES  ")>> \o
    (IF \E h \in 1..Len(H) : H[h].reviewed = APPR
     THEN [k \in 1..Len(SelectSeq([h \in 1..Len(H) |-> h],
                                  LAMBDA h : H[h].reviewed = APPR)) |->
              DiffText(SelectSeq([h \in 1..Len(H) |-> h],
                                 LAMBDA h : H[h].reviewed = APPR)[k])]
     ELSE <<Title("None.")>>)

\* patch.apply() returns to cherry_pick (or raises), and cherry_pick returns
CherryTail(H) ==
    LET l == apply_text(a, b, blocks, H)
    IN  IF SanityFails(b, H, l)
        THEN /\ pc' = "AssertionError_sanity"
             /\ UNCHANGED <<l_text, out, text>>
        ELSE /\ pc' = "picked"
             /\ l_text' = l
             /\ out' = out \o ApprovedChanges(H)
             /\ text' = Join(l)

\* review_hunks returns to who called it
Return(who, H) ==
    /\ caller' = "none"
    /\ IF who = "cherry_pick" THEN CherryTail(H)
       ELSE /\ UNCHANGED <<out, text>>
            /\ IF who = "apply" THEN ApplyTail(H)
               ELSE pc' = "reviewed" /\ l_text' = l_text

\* an exception leaves review_hunks and its caller
Raise(exc) ==
    /\ pc' = exc
    /\ caller' = "none"
    /\ UNCHANGED <<l_text, out, text>>

\* the head of the while loop with the locals as the last command left them:
\* leave the loop, or evaluate super_hunks[position] and find_pending and
\* block in pywikibot.input
LoopHead(who, H, shs, pos) ==
    IF ~AnyPending(H, shs) THEN Return(who, H)
    ELSE IF pos = None THEN Raise("TypeError")
    ELSE IF pos[1] >= Len(shs) \/ pos[1] < 0 - Len(shs) THEN Raise("IndexError")
    ELSE IF \/ find_pending(H, shs, pos[1] + 1, Len(shs)).exc
            \/ find_pending(H, shs, pos[1] - 1, -1).exc
    THEN Raise("AssertionError_status")
    ELSE pc' = "review" /\ caller' = who /\ UNCHANGED <<l_text, out, text>>

\* what one command leaves behind (help: the help lines it showed), then
\* the loop head (exc: the command itself raised)
ContinueShowing(H, shs, pos, err, exc, help) ==
    /\ hunks' = H
    /\ super_hunks' = shs
    /\ position' = pos
    /\ error' = err
    /\ shown' = help
    /\ UNCHANGED <<diff, diff_text, a, b, context, groups, blocks, _super_hunks>>
    /\ IF exc THEN Raise("AssertionError_status")
       ELSE LoopHead(caller, H, shs, pos)

\* a command that shows no help
Continue(H, shs, pos, err, exc) ==
    ContinueShowing(H, shs, pos, err, exc, None)

\* mutant of choice_yn: without a later pending super hunk, the nearest
\* pending one before the current is taken
choice_yn_nearest(choice) ==
    /\ pc = "review"
    /\ choice \in {"y", "n"}
    /\ LET H == set_reviewed(hunks, super_hunk,
                             IF choice = "y" THEN APPR ELSE NOT_APPR)
       IN  IF next_pending # None
           THEN Continue(H, super_hunks, next_pending, FALSE, FALSE)
           ELSE Continue(H, super_hunks, prev_pending, FALSE, FALSE)

\* mutant of choice_yn: position moves before the status is assigned, so
\* that the super hunk moved to is decided
choice_yn_moves_first(choice) ==
    /\ pc = "review"
    /\ choice \in {"y", "n"}
    /\ LET target == IF next_pending # None THEN next_pending ELSE position
           H == set_reviewed(hunks, super_hunks[target[1] + 1],
                             IF choice = "y" THEN APPR ELSE NOT_APPR)
           found == find_pending(H, super_hunks, 0, position[1])
       IN  IF next_pending # None
           THEN Continue(H, super_hunks, next_pending, FALSE, FALSE)
           ELSE Continue(H, super_hunks, found.val, FALSE, found.exc)

\* mutant of choice_yn: n leaves the hunks of the super hunk undecided
choice_yn_n_pending(choice) ==
    /\ pc = "review"
    /\ choice \in {"y", "n"}
    /\ LET H == set_reviewed(hunks, super_hunk,
                             IF choice = "y" THEN APPR ELSE PENDING)
           found == find_pending(H, super_hunks, 0, position[1])
       IN  IF next_pending # None
           THEN Continue(H, super_hunks, next_pending, FALSE, FALSE)
           ELSE Continue(H, super_hunks, found.val, FALSE, found.exc)

\* choice in ['y', 'n']
choice_yn(choice) ==
    /\ pc = "review"
    /\ choice \in {"y", "n"}
    /\ LET H == set_reviewed(hunks, super_hunk,
                             IF choice = "y" THEN APPR ELSE NOT_APPR)
           found == find_pending(H, super_hunks, 0, position[1])
       IN  IF next_pending # None
           THEN Continue(H, super_hunks, next_pending, FALSE, FALSE)
           ELSE Continue(H, super_hunks, found.val, FALSE, found.exc)

\* mutant of SetPendingFrom: the slice starts one super hunk too late
SetPendingFrom_late(H, shs, from, value) ==
    [h \in 1..Len(H) |->
        IF /\ H[h].reviewed = PENDING
           /\ \E k \in (from + 2)..Len(shs) :
                 \E m \in 1..Len(shs[k]._hunks) : shs[k]._hunks[m] = h
        THEN [H[h] EXCEPT !.reviewed = value]
        ELSE H[h]]

\* every pending hunk of the super hunks shs[from:] gets the status value
SetPendingFrom(H, shs, from, value) ==
    [h \in 1..Len(H) |->
        IF /\ H[h].reviewed = PENDING
           /\ \E k \in (from + 1)..Len(shs) :
                 \E m \in 1..Len(shs[k]._hunks) : shs[k]._hunks[m] = h
        THEN [H[h] EXCEPT !.reviewed = value]
        ELSE H[h]]

\* mutant of choice_q: only the current and the later super hunks are rejected
choice_q_later ==
    /\ pc = "review"
    /\ Continue(SetPendingFrom(hunks, super_hunks, position[1], NOT_APPR),
                super_hunks, position, FALSE, FALSE)

\* choice == 'q'
choice_q ==
    /\ pc = "review"
    /\ Continue(SetPendingFrom(hunks, super_hunks, 0, NOT_APPR),
                super_hunks, position, FALSE, FALSE)

\* mutant of choice_ad: position becomes the next pending super hunk
choice_ad_next(choice) ==
    /\ pc = "review"
    /\ choice \in {"a", "d"}
    /\ LET H == SetPendingFrom(hunks, super_hunks, position[1],
                               IF choice = "a" THEN APPR ELSE NOT_APPR)
           found == find_pending(H, super_hunks, position[1] + 1, Len(super_hunks))
       IN  Continue(H, super_hunks, found.val, FALSE, found.exc)

\* mutant of choice_ad: position is left where it is
choice_ad_stay(choice) ==
    /\ pc = "review"
    /\ choice \in {"a", "d"}
    /\ LET H == SetPendingFrom(hunks, super_hunks, position[1],
                               IF choice = "a" THEN APPR ELSE NOT_APPR)
       IN  Continue(H, super_hunks, position, FALSE, FALSE)

\* choice in ['a', 'd']
choice_ad(choice) ==
    /\ pc = "review"
    /\ choice \in {"a", "d"}
    /\ LET H == SetPendingFrom(hunks, super_hunks, position[1],
                               IF choice = "a" THEN APPR ELSE NOT_APPR)
           found == find_pending(H, super_hunks, 0, position[1])
       IN  Continue(H, super_hunks, found.val, FALSE, found.exc)

\* int(next_hunk): the answer is a list of characters; surrounding blanks
\* are stripped, one sign is allowed, then only digits (else ValueError,
\* here None)
IsDigit(c) == c \in {"0", "1", "2", "3", "4", "5", "6", "7", "8", "9"}
DigitValue(c) ==
    CASE c = "0" -> 0 [] c = "1" -> 1 [] c = "2" -> 2 [] c = "3" -> 3
      [] c = "4" -> 4 [] c = "5" -> 5 [] c = "6" -> 6 [] c = "7" -> 7
      [] c = "8" -> 8 [] c = "9" -> 9

RECURSIVE StripLeft(_)
StripLeft(s) == IF s # <<>> /\ Head(s) = " " THEN StripLeft(Tail(s)) ELSE s
RECURSIVE StripRight(_)
StripRight(s) ==
    IF s # <<>> /\ s[Len(s)] = " " THEN StripRight(SubSeq(s, 1, Len(s) - 1)) ELSE s

RECURSIVE DigitsValue(_, _)
DigitsValue(s, acc) ==
    IF s = <<>> THEN acc ELSE DigitsValue(Tail(s), acc * 10 + DigitValue(Head(s)))

\* mutant of int: blanks around the number are not accepted
int_no_strip(str) ==
    LET signed == str # <<>> /\ Head(str) \in {"+", "-"}
        digits == IF signed THEN Tail(str) ELSE str
    IN  IF digits = <<>> \/ \E k \in 1..Len(digits) : ~IsDigit(digits[k])
        THEN None
        ELSE IF signed /\ Head(str) = "-"
        THEN Some(0 - DigitsValue(digits, 0))
        ELSE Some(DigitsValue(digits, 0))

int(str) ==
    LET s == StripRight(StripLeft(str))
        signed == s # <<>> /\ Head(s) \in {"+", "-"}
        digits == IF signed THEN Tail(s) ELSE s
    IN  IF digits = <<>> \/ \E k \in 1..Len(digits) : ~IsDigit(digits[k])
        THEN None
        ELSE IF signed /\ Head(s) = "-"
        THEN Some(0 - DigitsValue(digits, 0))
        ELSE Some(DigitsValue(digits, 0))

\* the answers to 'Go to which hunk?' the model draws from
GoAnswers ==
    { <<>>, <<"x">>, <<" ">>, <<"0">>, <<"1">>, <<"2">>, <<"3">>, <<"4">>,
      <<"5">>, <<"-", "1">>, <<" ", "2", " ">>, <<"1", "x">> }

\* choice == 'g'
choice_g(next_hunk) ==
    /\ pc = "review"
    /\ next_hunk \in GoAnswers
    /\ LET asserts == \E k \in 1..Len(super_hunks) :
                          ReviewedAsserts(hunks, super_hunks[k])
           parsed == int(next_hunk)
           next_hunk_position == IF parsed = None THEN None
                                 ELSE Some(parsed[1] - 1)
           valid == /\ next_hunk_position # None
                    /\ 0 <= next_hunk_position[1]
                    /\ next_hunk_position[1] < Len(super_hunks)
       IN  IF asserts
           THEN Continue(hunks, super_hunks, position, FALSE, TRUE)
           ELSE IF valid
           THEN Continue(hunks, super_hunks, next_hunk_position, FALSE, FALSE)
           ELSE Continue(hunks, super_hunks, position, next_hunk # <<>>, FALSE)

\* choice == 'j'
choice_j ==
    /\ pc = "review"
    /\ "j" \in answers
    /\ Continue(hunks, super_hunks, next_pending, FALSE, FALSE)

\* mutant of choice_J: the next pending super hunk is taken
choice_J_pending ==
    /\ pc = "review"
    /\ "J" \in answers
    /\ Continue(hunks, super_hunks, next_pending, FALSE, FALSE)

\* choice == 'J'
choice_J ==
    /\ pc = "review"
    /\ "J" \in answers
    /\ Continue(hunks, super_hunks, Some(position[1] + 1), FALSE, FALSE)

\* mutant of choice_k: the first pending super hunk of the list is taken
choice_k_first ==
    /\ pc = "review"
    /\ "k" \in answers
    /\ Continue(hunks, super_hunks,
                find_pending(hunks, super_hunks, 0, position[1]).val,
                FALSE, FALSE)

\* choice == 'k'
choice_k ==
    /\ pc = "review"
    /\ "k" \in answers
    /\ Continue(hunks, super_hunks, prev_pending, FALSE, FALSE)

\* choice == 'K'
choice_K ==
    /\ pc = "review"
    /\ "K" \in answers
    /\ Continue(hunks, super_hunks, Some(position[1] - 1), FALSE, FALSE)

\* mutant of choice_s: the slice after the split starts at position
choice_s_keep ==
    /\ pc = "review"
    /\ "s" \in answers
    /\ Continue(hunks,
                SubSeq(super_hunks, 1, position[1])
                    \o split(hunks, super_hunks[position[1] + 1])
                    \o SubSeq(super_hunks, position[1] + 1, Len(super_hunks)),
                position, FALSE, FALSE)

\* choice == 's'
choice_s ==
    /\ pc = "review"
    /\ "s" \in answers
    /\ Continue(hunks,
                SubSeq(super_hunks, 1, position[1])
                    \o split(hunks, super_hunks[position[1] + 1])
                    \o SubSeq(super_hunks, position[1] + 2, Len(super_hunks)),
                position, FALSE, FALSE)

\* what pywikibot.input may return at 'Accept this hunk [...]?'
Choices == {"y", "n", "q", "a", "d", "g", "j", "J", "k", "K", "s", "?", "", "x"}

\* choice == '?', which every answer that is not offered is turned into
choice_help(choice) ==
    /\ pc = "review"
    /\ choice \in Choices
    /\ choice \notin answers \/ choice = "?"
    /\ ContinueShowing(hunks, super_hunks, position, FALSE, FALSE, help_lines)

\* mutant of PendingHunks: every hunk of self.hunks is yielded
PendingHunks_all(H) == [h \in 1..Len(H) |-> h]

\* the hunks of self.hunks that are pending, as the generator yields them
PendingHunks(H) ==
    SelectSeq([h \in 1..Len(H) |-> h], LAMBDA h : H[h].reviewed = PENDING)

\* review_hunks() up to the first pywikibot.input, called by who
EnterReview(who) ==
    /\ UNCHANGED <<diff, diff_text, a, b, context, groups, blocks, _super_hunks, hunks>>
    /\ error' = FALSE
    /\ shown' = None
    /\ IF SuperHunkRaises(hunks, context, PendingHunks(hunks), FALSE)
       THEN Raise("IndexError") /\ UNCHANGED <<super_hunks, position>>
       ELSE LET shs == _generate_super_hunks(hunks, context,
                                             PendingHunks(hunks), FALSE)
            IN  /\ super_hunks' = shs
                /\ position' = Some(0)
                /\ LoopHead(who, hunks, shs, Some(0))

Callable == pc \in {"idle", "reviewed", "applied"}

\* a call of PatchManager.review_hunks()
review_hunks ==
    /\ Callable
    /\ EnterReview("review_hunks")

\* mutant of apply: the review is entered without looking for a pending hunk
apply_always_reviews ==
    /\ Callable
    /\ EnterReview("apply")

\* a call of PatchManager.apply()
apply ==
    /\ Callable
    /\ IF \E h \in 1..Len(hunks) : hunks[h].reviewed = PENDING
       THEN EnterReview("apply")
       ELSE /\ ApplyTail(hunks)
            /\ UNCHANGED <<diff, diff_text, a, b, context, groups, blocks, _super_hunks, hunks,
                           super_hunks, position, caller, error, shown, out,
                           text>>

\* cherry_pick(oldtext, newtext, n): the PatchManager is built (the texts
\* and n are the ones of Init) and every change is shown
cherry_pick ==
    /\ pc = "idle"
    /\ pc' = "cherry_pick"
    /\ out' = AllChanges(hunks)
    /\ UNCHANGED <<diff, diff_text, a, b, context, groups, blocks, _super_hunks, hunks,
                   super_hunks, position, caller, error, shown, l_text, text>>

\* cherry_pick: text_list = patch.apply(), up to the first pywikibot.input
\* or to the end of cherry_pick
cherry_pick_apply ==
    /\ pc = "cherry_pick"
    /\ IF \E h \in 1..Len(hunks) : hunks[h].reviewed = PENDING
       THEN EnterReview("cherry_pick")
       ELSE /\ CherryTail(hunks)
            /\ UNCHANGED <<diff, diff_text, a, b, context, groups, blocks, _super_hunks, hunks,
                           super_hunks, position, caller, error, shown>>

----------------------------------------------------------------------------
\* PatchManager(text_a, text_b, context) for the texts of the opcodes codes
Construct(codes, ctx) ==
    /\ a = TextA(codes)
    /\ b = TextB(codes)
    /\ context = ctx
    /\ groups = get_grouped_opcodes(codes, 0)
    /\ hunks = MakeHunks(groups, Len(a))
    /\ blocks = get_blocks(groups, Len(a))
    /\ _super_hunks = _generate_super_hunks(hunks, ctx,
                                            [h \in 1..Len(hunks) |-> h], TRUE)

Init ==
    /\ \E codes \in Opcodes(0, 0, "start"), ctx \in 0..MaxContext :
          Construct(codes, ctx)
    /\ super_hunks = <<>>
    /\ position = None
    /\ caller = "none"
    /\ error = FALSE
    /\ l_text = <<>>
    /\ shown = None
    /\ out = <<>>
    /\ text = ""
    /\ pc = "idle"
    /\ diff = <<>>
    /\ diff_text = <<>>

Next ==
    \/ apply
    \/ review_hunks
    \/ cherry_pick
    \/ cherry_pick_apply
    \/ \E choice \in {"y", "n"} : choice_yn(choice)
    \/ choice_q
    \/ \E choice \in {"a", "d"} : choice_ad(choice)
    \/ \E next_hunk \in GoAnswers : choice_g(next_hunk)
    \/ choice_j
    \/ choice_J
    \/ choice_k
    \/ choice_K
    \/ choice_s
    \/ \E choice \in Choices : choice_help(choice)

Spec == Init /\ [][Next]_vars

\* the same program on texts whose hunks are up to MaxGap lines apart
InitGaps ==
    /\ \E codes \in GapOpcodes, ctx \in 0..MaxContext :
          Construct(codes, ctx)
    /\ super_hunks = <<>>
    /\ position = None
    /\ caller = "none"
    /\ error = FALSE
    /\ l_text = <<>>
    /\ shown = None
    /\ out = <<>>
    /\ text = ""
    /\ pc = "idle"
    /\ diff = <<>>
    /\ diff_text = <<>>

SpecGaps == InitGaps /\ [][Next]_vars

\* a user who answers nothing but y and n
NextYN ==
    \/ apply
    \/ review_hunks
    \/ \E choice \in {"y", "n"} : choice_yn(choice)

SpecYN == Init /\ [][NextYN]_vars

\* hunk.reviewed = value, by the code that owns the PatchManager, before it
\* calls a method: reviewed is a plain attribute of the hunks of the public
\* list self.hunks
assign_reviewed(h, value) ==
    /\ pc = "idle"
    /\ h \in 1..Len(hunks)
    /\ value \in {APPR, NOT_APPR, PENDING}
    /\ hunks' = [hunks EXCEPT ![h].reviewed = value]
    /\ UNCHANGED <<diff, diff_text, a, b, context, groups, blocks, _super_hunks, super_hunks,
                   position, caller, error, l_text, shown, out, text, pc>>

\* the program with an owner that decides hunks itself
NextClient ==
    \/ Next
    \/ \E h \in 1..Len(hunks), value \in {APPR, NOT_APPR, PENDING} :
          assign_reviewed(h, value)

SpecClient == Init /\ [][NextClient]_vars

----------------------------------------------------------------------------
(* The colored diff of one hunk.  A line is the list of its characters; a  *)
(* colored line also holds colors, as color_format writes them.            *)

MaxSegments == 3

\* what create_diff yields for a group: an equal, a deleted and an inserted
\* line, and what difflib.ndiff writes for a replaced line: for abc -> ac,
\* ac -> abc, abc -> axc and x -> y
DiffSegments ==
    { << <<" ", " ", "k", "\n">> >>,
      << <<"-", " ", "x", "\n">> >>,
      << <<"+", " ", "y", "\n">> >>,
      << <<"-", " ", "a", "b", "c", "\n">>, <<"?", " ", " ", "-", "\n">>,
         <<"+", " ", "a", "c", "\n">> >>,
      << <<"-", " ", "a", "c", "\n">>, <<"+", " ", "a", "b", "c", "\n">>,
         <<"?", " ", " ", "+", "\n">> >>,
      << <<"-", " ", "a", "b", "c", "\n">>, <<"?", " ", " ", "^", "\n">>,
         <<"+", " ", "a", "x", "c", "\n">>, <<"?", " ", " ", "^", "\n">> >>,
      << <<"-", " ", "x", "\n">>, <<"+", " ", "y", "\n">> >> }

\* list(self.create_diff()) for groups of up to n opcodes
RECURSIVE create_diff(_)
create_diff(n) ==
    IF n = 1 THEN DiffSegments
    ELSE create_diff(n - 1)
         \cup {d \o seg : d \in create_diff(n - 1), seg \in DiffSegments}

\* str.startswith for one character
startswith(line, char) == Len(line) > 0 /\ line[1] = char

\* str.strip
RECURSIVE strip(_)
strip(s) ==
    IF s = <<>> THEN s
    ELSE IF Head(s) \in {" ", "\n"} THEN strip(Tail(s))
    ELSE IF s[Len(s)] \in {" ", "\n"} THEN strip(SubSeq(s, 1, Len(s) - 1))
    ELSE s

\* self.colors, self.bg_colors
colors == [sign \in {"+", "-"} |->
             IF sign = "+" THEN "lightgreen" ELSE "lightred"]
bg_colors == colors

\* _ColorFormatter.get_value for a color field
get_value(color) == "\\03{" \o color \o "}"

\* color_line: the loop over zip_longest(line, line_ref.strip(),
\* fillvalue=' ') from index i (1-based)
RECURSIVE ColorLoop(_, _, _, _, _, _)
ColorLoop(line, ref, i, color, color_closed, colored_line) ==
    IF i > Max(Len(line), Len(ref))
    THEN IF ~color_closed THEN Append(colored_line, get_value("default"))
         ELSE colored_line
    ELSE LET char == IF i <= Len(line) THEN line[i] ELSE " "
             char_ref == IF i <= Len(ref) THEN ref[i] ELSE " "
         IN  IF color_closed
             THEN IF char_ref # " "
                  THEN LET apply_color ==
                             IF char # " " THEN colors[color]
                             ELSE "default;" \o bg_colors[color]
                       IN  ColorLoop(line, ref, i + 1, color, FALSE,
                                     colored_line
                                         \o <<get_value(apply_color), char>>)
                  ELSE ColorLoop(line, ref, i + 1, color, TRUE,
                                 Append(colored_line, char))
             ELSE IF char_ref = " "
                  THEN ColorLoop(line, ref, i + 1, color, TRUE,
                                 colored_line \o <<get_value("default"), char>>)
                  ELSE ColorLoop(line, ref, i + 1, color, FALSE,
                                 Append(colored_line, char))

\* mutant of color_line: without line_ref the line is returned as it is
color_line_plain(line, line_ref) ==
    IF line_ref = None THEN line
    ELSE ColorLoop(line, strip(line_ref[1]), 1, line[1], TRUE, <<>>)

\* Hunk.color_line(line, line_ref), line_ref being None or Some(a string)
color_line(line, line_ref) ==
    LET color == line[1]
    IN  IF line_ref = None
        THEN IF color \in DOMAIN colors
             THEN <<get_value(colors[color])>> \o line
                      \o <<get_value("default")>>
             ELSE line
        ELSE ColorLoop(line, strip(line_ref[1]), 1, color, TRUE, <<>>)

\* fmt[:min(len(fmt), len(line))], None when that is empty
Reuse(fmt, line) ==
    LET cut == SubSeq(fmt, 1, Min(Len(fmt), Len(line)))
    IN  IF cut # <<>> THEN Some(cut) ELSE None

\* mutant of FormatLoop: line2 is kept after an added line has used it
RECURSIVE FormatLoop_keep(_, _, _, _, _, _)
FormatLoop_keep(d, i, fmt, line1, line2, yielded) ==
    IF i > Len(d)
    THEN IF startswith(line2, "-")
         THEN Append(yielded, color_line(line2, None))
         ELSE IF startswith(line2, "+")
         THEN Append(yielded,
                     color_line(line2,
                                Reuse(IF startswith(line1, "?") THEN line1
                                      ELSE <<>>, line2)))
         ELSE yielded
    ELSE LET f == line1
             l1 == line2
             l2 == d[i]
         IN  IF startswith(l1, "?")
             THEN FormatLoop_keep(d, i + 1, f, l1, l2, yielded)
             ELSE IF startswith(l2, "?")
             THEN FormatLoop_keep(d, i + 1, f, l1, l2,
                                  Append(yielded, color_line(l1, Some(l2))))
             ELSE IF startswith(l1, "-")
             THEN FormatLoop_keep(d, i + 1, f, l1, l2,
                                  Append(yielded, color_line(l1, None)))
             ELSE IF startswith(l1, "+")
             THEN FormatLoop_keep(d, i + 1, f, l1, l2,
                             Append(yielded,
                                    color_line(l1,
                                               Reuse(IF startswith(f, "?")
                                                     THEN f ELSE <<>>, l1))))
             ELSE FormatLoop_keep(d, i + 1, f, l1, l2, yielded)

\* Hunk.format_diff: the for loop from line d[i] on, with fmt, line1, line2
\* as the last iteration left them, then the handling of the last line
RECURSIVE FormatLoop(_, _, _, _, _, _)
FormatLoop(d, i, fmt, line1, line2, yielded) ==
    IF i > Len(d)
    THEN IF startswith(line2, "-")
         THEN Append(yielded, color_line(line2, None))
         ELSE IF startswith(line2, "+")
         THEN Append(yielded,
                     color_line(line2,
                                Reuse(IF startswith(line1, "?") THEN line1
                                      ELSE <<>>, line2)))
         ELSE yielded
    ELSE LET f == line1
             l1 == line2
             l2 == d[i]
         IN  IF startswith(l1, "?")
             THEN FormatLoop(d, i + 1, f, l1, l2, yielded)
             ELSE IF startswith(l2, "?")
             THEN FormatLoop(d, i + 1, f, l1,
                             IF startswith(l1, "+") THEN <<>> ELSE l2,
                             Append(yielded, color_line(l1, Some(l2))))
             ELSE IF startswith(l1, "-")
             THEN FormatLoop(d, i + 1, f, l1, l2,
                             Append(yielded, color_line(l1, None)))
             ELSE IF startswith(l1, "+")
             THEN FormatLoop(d, i + 1, f, l1, l2,
                             Append(yielded,
                                    color_line(l1,
                                               Reuse(IF startswith(f, "?")
                                                     THEN f ELSE <<>>, l1))))
             ELSE FormatLoop(d, i + 1, f, l1, l2, yielded)

\* ''.join of a list of lists of characters
RECURSIVE join(_)
join(l) == IF l = <<>> THEN <<>> ELSE Head(l) \o join(Tail(l))

\* Hunk.__init__: self.diff_text = ''.join(self.format_diff())
format_diff ==
    /\ pc = "Hunk"
    /\ diff_text' = join(FormatLoop(diff, 2, <<>>, <<>>, diff[1], <<>>))
    /\ pc' = "formatted"
    /\ UNCHANGED <<diff, a, b, context, groups, hunks, blocks, _super_hunks,
                   super_hunks, position, caller, error, l_text, shown, out,
                   text>>

\* Hunk.__init__ after self.diff = list(self.create_diff())
InitFormat ==
    /\ diff \in create_diff(MaxSegments)
    /\ diff_text = <<>>
    /\ pc = "Hunk"
    /\ Construct(<<>>, 0)
    /\ super_hunks = <<>>
    /\ position = None
    /\ caller = "none"
    /\ error = FALSE
    /\ l_text = <<>>
    /\ shown = None
    /\ out = <<>>
    /\ text = ""

NextFormat == format_diff

SpecFormat == InitFormat /\ [][NextFormat]_vars

----------------------------------------------------------------------------
(* Properties.  The helpers below speak of the state in the words of the   *)
(* specification and do not use the operators that model the code.         *)

HunkIds == 1..Len(hunks)
AllHunks(status) == \A h \in HunkIds : hunks[h].reviewed = status
NoHunkPending == \A h \in HunkIds : hunks[h].reviewed # PENDING
Returned == pc \in {"reviewed", "applied", "picked"}

SetMin(S) == CHOOSE x \in S : \A y \in S : x <= y
SetMax(S) == CHOOSE x \in S : \A y \in S : x >= y

\* the hunks of super hunk k (0-based) of the running review
Members(k) == {super_hunks[k + 1]._hunks[m] : m \in 1..Len(super_hunks[k + 1]._hunks)}
SessionHunks == UNION {Members(k) : k \in 0..(Len(super_hunks) - 1)}
PendingSuperHunk(k) == \A h \in Members(k) : hunks[h].reviewed = PENDING
PendingAfter(p) == {k \in (p + 1)..(Len(super_hunks) - 1) : PendingSuperHunk(k)}
PendingBefore(p) == {k \in 0..(p - 1) : PendingSuperHunk(k)}
StatusFor(choice) == IF choice \in {"y", "a"} THEN APPR ELSE NOT_APPR

\* exactly the hunks of the set S change, and they get the given status
OnlyStatusOf(S, status) ==
    /\ Len(hunks') = Len(hunks)
    /\ \A h \in HunkIds :
          hunks'[h] = IF h \in S THEN [hunks[h] EXCEPT !.reviewed = status]
                      ELSE hunks[h]

\* C1: if every hunk is Approved when apply() builds its result, the
\* concatenation of the pieces it returns is text b, and the sanity
\* assertion at the end of apply() never fails.
C1_FullAccept ==
    /\ pc # "AssertionError_sanity"
    /\ (pc = "applied" /\ AllHunks(APPR)) => Join(l_text) = Join(b)

C1_Witness ==
    /\ pc = "applied"
    /\ AllHunks(APPR)
    /\ Len(hunks) >= 2
    /\ Len(blocks) > Len(hunks)
    /\ context = 1

\* C2: if every hunk is Rejected when apply() builds its result, the
\* concatenation of the pieces it returns is text a.
C2_FullReject ==
    (pc = "applied" /\ AllHunks(NOT_APPR)) => Join(l_text) = Join(a)

C2_Witness ==
    /\ pc = "applied"
    /\ AllHunks(NOT_APPR)
    /\ Len(hunks) >= 2
    /\ Len(blocks) > Len(hunks)

\* text a from line i (0-based) on, with the a-range of every Approved hunk
\* k, k+1, ... replaced by the b-range of that hunk
RECURSIVE Patched(_, _)
Patched(k, i) ==
    IF k > Len(hunks) THEN Slice(a, i, Len(a))
    ELSE Slice(a, i, hunks[k].a_rng[1])
         \o (IF hunks[k].reviewed = APPR
             THEN Slice(b, hunks[k].b_rng[1], hunks[k].b_rng[2])
             ELSE Slice(a, hunks[k].a_rng[1], hunks[k].a_rng[2]))
         \o Patched(k + 1, hunks[k].a_rng[2])

\* C3: whatever hunks are Approved, the list apply() returns is text a with
\* the a-range of each Approved hunk replaced by the b-range of that hunk,
\* and nothing else changed.
C3_ApplyPatches ==
    pc = "applied" => l_text = Patched(1, 0)

C3_Witness ==
    /\ pc = "applied"
    /\ \E h \in HunkIds : hunks[h].reviewed = APPR
    /\ \E h \in HunkIds : hunks[h].reviewed = NOT_APPR
    /\ l_text # a
    /\ l_text # b

\* C4: the blocks are contiguous from 0 to len(a), in order, no UNCHANGED
\* block is empty, and the hunk indices of the blocks are 0, 1, ... in
\* this order, each once.
C4_BlocksPartition ==
    /\ \A k \in 1..Len(blocks) :
          /\ blocks[k][2][1] = (IF k = 1 THEN 0 ELSE blocks[k - 1][2][2])
          /\ blocks[k][2][1] <= blocks[k][2][2]
          /\ blocks[k][1] = -1 => blocks[k][2][1] < blocks[k][2][2]
    /\ (IF blocks = <<>> THEN 0 ELSE blocks[Len(blocks)][2][2]) = Len(a)
    /\ SelectSeq([k \in 1..Len(blocks) |-> blocks[k][1]], LAMBDA x : x # -1)
          = [h \in 1..Len(hunks) |-> h - 1]

C4_Witness ==
    /\ Len(hunks) >= 2
    /\ Len(blocks) >= 4
    /\ blocks[1][1] = -1
    /\ \E k \in 1..Len(blocks) : blocks[k][1] # -1 /\ blocks[k][2][1] = blocks[k][2][2]

\* C5: apply() starts the review, before it builds any text, exactly when
\* some hunk is Pending; when none is, it reads no command, changes no hunk
\* status and returns; called again after it returned, it returns the same
\* text.
C5_ApplyReviewsIffPending ==
    [][apply =>
        IF \E h \in HunkIds : hunks[h].reviewed = PENDING
        THEN /\ pc' = "review"
             /\ caller' = "apply"
             /\ l_text' = l_text
             /\ hunks' = hunks
        ELSE /\ pc' = "applied"
             /\ hunks' = hunks
             /\ UNCHANGED <<super_hunks, position, error, caller>>
             /\ pc = "applied" => l_text' = l_text]_vars

\* apply() has returned a text made of both texts, and may be called again
C5_Witness ==
    /\ pc = "applied"
    /\ Len(hunks) >= 2
    /\ NoHunkPending
    /\ l_text # a
    /\ l_text # b
    /\ position = None

\* C6: a command is read only while some hunk of the session is Pending,
\* and when review_hunks() has returned (so when apply() has built its
\* text) no hunk is Pending.
C6_LoopUntilNonePending ==
    /\ pc = "review" => \E h \in SessionHunks : hunks[h].reviewed = PENDING
    /\ Returned => NoHunkPending

C6_Witness ==
    /\ pc = "reviewed"
    /\ Len(hunks) = 3
    /\ Len(super_hunks) = 3
    /\ \E h \in HunkIds : hunks[h].reviewed = APPR
    /\ \E h \in HunkIds : hunks[h].reviewed = NOT_APPR

\* C7 as claimed: y (n) makes the hunks of the current super hunk Approved
\* (Rejected) and changes no other; position moves to the next Pending
\* super hunk after the current one, else to the nearest Pending super hunk
\* before it.
C7_Original ==
    [][\A choice \in {"y", "n"} : choice_yn(choice) =>
        /\ OnlyStatusOf(Members(position[1]), StatusFor(choice))
        /\ IF PendingAfter(position[1]) # {}
           THEN position' = Some(SetMin(PendingAfter(position[1])))
           ELSE PendingBefore(position[1]) # {} =>
                    position' = Some(SetMax(PendingBefore(position[1])))]_vars

\* C7 amended: ... else to the first Pending super hunk of the list, and
\* position is None when no other super hunk is Pending.
C7_AcceptThenNextPending ==
    [][\A choice \in {"y", "n"} : choice_yn(choice) =>
        /\ OnlyStatusOf(Members(position[1]), StatusFor(choice))
        /\ IF PendingAfter(position[1]) # {}
           THEN position' = Some(SetMin(PendingAfter(position[1])))
           ELSE IF PendingBefore(position[1]) # {}
           THEN position' = Some(SetMin(PendingBefore(position[1])))
           ELSE position' = None]_vars

\* the last of three super hunks was accepted while the two before it were
\* Pending, and the review is back on the first
C7_Witness ==
    /\ pc = "review"
    /\ Len(super_hunks) = 3
    /\ PendingSuperHunk(0)
    /\ PendingSuperHunk(1)
    /\ \A h \in Members(2) : hunks[h].reviewed = APPR
    /\ position = Some(0)

C9_QuitRejectsPending ==
    [][choice_q =>
        /\ OnlyStatusOf({h \in HunkIds : hunks[h].reviewed = PENDING}, NOT_APPR)
        /\ pc' \in {"reviewed", "applied", "picked"}
        /\ UNCHANGED <<super_hunks, position>>]_vars

\* the review ended on a super hunk: only q ends it with a position
C9_Witness ==
    /\ Returned
    /\ Len(super_hunks) = 3
    /\ position = Some(1)
    /\ \E h \in HunkIds : hunks[h].reviewed = APPR
    /\ \E h \in HunkIds : hunks[h].reviewed = NOT_APPR

\* the decimal numeral of n, for 0 <= n <= 99
DigitChar(d) ==
    CASE d = 0 -> "0" [] d = 1 -> "1" [] d = 2 -> "2" [] d = 3 -> "3"
      [] d = 4 -> "4" [] d = 5 -> "5" [] d = 6 -> "6" [] d = 7 -> "7"
      [] d = 8 -> "8" [] d = 9 -> "9"
Numeral(n) == IF n < 10 THEN <<DigitChar(n)>>
              ELSE <<DigitChar(n \div 10), DigitChar(n % 10)>>
Blanks(n) == [k \in 1..n |-> " "]

\* the answer is the numeral of n, with or without a plus sign, between blanks
Denotes(answer, n) ==
    \E l, r \in 0..Len(answer) :
        \/ answer = Blanks(l) \o Numeral(n) \o Blanks(r)
        \/ answer = Blanks(l) \o <<"+">> \o Numeral(n) \o Blanks(r)

\* C10: on g, an answer that is an integer i with 1 <= i <= number of
\* super hunks sets position to i-1; another answer that is not empty
\* reports an error and leaves position; an empty answer leaves position
\* without an error; no hunk status and no super hunk changes.
C10_GoTo ==
    [][\A answer \in GoAnswers : choice_g(answer) =>
        LET targets == {i \in 1..Len(super_hunks) : Denotes(answer, i)}
        IN  /\ hunks' = hunks
            /\ super_hunks' = super_hunks
            /\ IF targets # {}
               THEN /\ position' = Some(SetMin(targets) - 1)
                    /\ error' = FALSE
               ELSE /\ position' = position
                    /\ error' = (answer # <<>>)]_vars

\* an error was reported during a review of several super hunks, the
\* current one already decided
C10_Witness ==
    /\ pc = "review"
    /\ error
    /\ Len(super_hunks) >= 2
    /\ ~PendingSuperHunk(position[1])

----------------------------------------------------------------------------
(* Navigation, split and help *)

\* the commands the specification says are offered at the current position
Offered ==
    {"y", "n", "q", "a", "d", "g", "?"}
    \cup (IF PendingAfter(position[1]) # {} THEN {"j"} ELSE {})
    \cup (IF position[1] # Len(super_hunks) - 1 THEN {"J"} ELSE {})
    \cup (IF PendingBefore(position[1]) # {} THEN {"k"} ELSE {})
    \cup (IF position[1] # 0 THEN {"K"} ELSE {})
    \cup (IF Cardinality(Members(position[1])) > 1 THEN {"s"} ELSE {})

\* C11: j is offered exactly when a super hunk after the current one is
\* Pending, k exactly when one before it is; j moves position to the closest
\* Pending super hunk after the current one, k to the closest one before it,
\* and neither changes a hunk status.
C11_JumpPending ==
    /\ [](pc = "review" =>
            /\ "j" \in answers <=> PendingAfter(position[1]) # {}
            /\ "k" \in answers <=> PendingBefore(position[1]) # {})
    /\ [][/\ choice_j =>
                /\ position' = Some(SetMin(PendingAfter(position[1])))
                /\ hunks' = hunks
          /\ choice_k =>
                /\ position' = Some(SetMax(PendingBefore(position[1])))
                /\ hunks' = hunks]_vars

\* of three super hunks the middle one is decided and the outer ones are
\* Pending: j and k jump over the middle one
C11_Witness ==
    /\ pc = "review"
    /\ Len(super_hunks) = 3
    /\ position = Some(0)
    /\ PendingSuperHunk(0)
    /\ ~PendingSuperHunk(1)
    /\ PendingSuperHunk(2)

\* C12: J is offered exactly when the current super hunk is not the last, K
\* exactly when it is not the first; J sets position to position+1 and K to
\* position-1 whatever the status of that super hunk, and neither changes a
\* hunk status.
C12_JumpAdjacent ==
    /\ [](pc = "review" =>
            /\ "J" \in answers <=> position[1] # Len(super_hunks) - 1
            /\ "K" \in answers <=> position[1] # 0)
    /\ [][/\ choice_J =>
                /\ position' = Some(position[1] + 1)
                /\ hunks' = hunks
          /\ choice_K =>
                /\ position' = Some(position[1] - 1)
                /\ hunks' = hunks]_vars

\* the review is on a decided super hunk between a Pending and a decided one
C12_Witness ==
    /\ pc = "review"
    /\ Len(super_hunks) = 3
    /\ position = Some(1)
    /\ PendingSuperHunk(0)
    /\ ~PendingSuperHunk(1)
    /\ ~PendingSuperHunk(2)

\* C13: s is offered exactly when the current super hunk has several hunks;
\* it puts one super hunk per hunk, in the order of the hunks, in the place
\* of the current super hunk, leaves the other super hunks, their order,
\* every hunk status and position unchanged.
C13_Split ==
    /\ [](pc = "review" =>
            ("s" \in answers <=> Cardinality(Members(position[1])) > 1))
    /\ [][choice_s =>
            LET p == position[1]
                members == super_hunks[p + 1]._hunks
                n == Len(members)
            IN  /\ n > 1
                /\ hunks' = hunks
                /\ position' = position
                /\ Len(super_hunks') = Len(super_hunks) + n - 1
                /\ \A k \in 1..p : super_hunks'[k] = super_hunks[k]
                /\ \A m \in 1..n : super_hunks'[p + m]._hunks = <<members[m]>>
                /\ \A k \in (p + 2)..Len(super_hunks) :
                      super_hunks'[k + n - 1] = super_hunks[k]]_vars

\* the second of two super hunks was split in two, after a super hunk that
\* was left as it was
C13_Witness ==
    /\ pc = "review"
    /\ Len(_super_hunks) = 2
    /\ Len(_super_hunks[1]._hunks) = 1
    /\ Len(super_hunks) = 3
    /\ position = Some(1)
    /\ AllHunks(PENDING)

\* C14: an answer that is not offered now is handled as ?: the help lists
\* exactly the commands offered now, one line each, the loop goes on, and
\* position, the super hunks and every hunk status are unchanged.
C14_UnofferedIsHelp ==
    [][\A choice \in Choices : choice_help(choice) =>
        /\ choice \notin Offered \/ choice = "?"
        /\ shown' # None
        /\ {shown'[k][1] : k \in 1..Len(shown')} = Offered
        /\ Len(shown') = Cardinality(Offered)
        /\ pc' = "review"
        /\ UNCHANGED <<hunks, super_hunks, position>>]_vars

\* help was shown on the first of several super hunks, the current one
\* having several hunks: s is listed and K is not
C14_Witness ==
    /\ pc = "review"
    /\ shown # None
    /\ \E k \in 1..Len(shown) : shown[k][1] = "s"
    /\ \E k \in 1..Len(shown) : shown[k][1] = "J"
    /\ \A k \in 1..Len(shown) : shown[k][1] # "K"

----------------------------------------------------------------------------
(* Grouping *)

\* the hunks of a list of super hunks, in the order of the list
RECURSIVE Flatten(_)
Flatten(shs) == IF shs = <<>> THEN <<>> ELSE Head(shs)._hunks \o Flatten(Tail(shs))

\* the unchanged lines of a between hunk h and the next hunk
Gap(h) == hunks[h + 1].a_rng[1] - hunks[h].a_rng[2]

\* hunks h and h+1 are in the same super hunk of the grouping shs
Together(shs, h) ==
    \E k \in 1..Len(shs) : \E m \in 1..(Len(shs[k]._hunks) - 1) :
        shs[k]._hunks[m] = h /\ shs[k]._hunks[m + 1] = h + 1

\* C15: with context c >= 1, two consecutive hunks are in the same super
\* hunk exactly when at most 2*c unchanged lines of a lie between them; the
\* super hunks are non-empty runs of consecutive hunks that make up the
\* list of hunks in its order.
C15_GroupingThreshold ==
    context >= 1 =>
        /\ Flatten(_super_hunks) = [h \in 1..Len(hunks) |-> h]
        /\ \A k \in 1..Len(_super_hunks) : _super_hunks[k]._hunks # <<>>
        /\ \A h \in 1..(Len(hunks) - 1) :
              Together(_super_hunks, h) <=> Gap(h) <= 2 * context

\* context 1: the gap of 2 lines connects, the gap of 3 lines does not
C15_Witness ==
    /\ context = 1
    /\ Len(hunks) = 3
    /\ Gap(1) = 2
    /\ Gap(2) = 3
    /\ Len(_super_hunks) = 2
    /\ Len(_super_hunks[1]._hunks) = 2

\* C16: with context 0 the grouping is one super hunk per hunk, in the
\* order of the hunks, and s is never offered during a review.
C16_NoMergeAtContextZero ==
    context = 0 =>
        /\ Len(_super_hunks) = Len(hunks)
        /\ \A h \in 1..Len(hunks) : _super_hunks[h]._hunks = <<h>>
        /\ pc = "review" =>
              /\ "s" \notin answers
              /\ Len(super_hunks) = Len(hunks)
              /\ \A h \in 1..Len(hunks) : super_hunks[h]._hunks = <<h>>

\* a review of three hunks with context 0
C16_Witness ==
    /\ context = 0
    /\ pc = "review"
    /\ Len(hunks) = 3
    /\ Len(super_hunks) = 3
    /\ position = Some(2)

----------------------------------------------------------------------------
(* Hunk header *)

RangeLen(rng) == rng[2] - rng[1]
LenSuffix(rng) ==
    IF RangeLen(rng) = 1 THEN "" ELSE "," \o ToString(RangeLen(rng))

\* C17 as claimed: each side of the header shows the range start + 1, then
\* ',<length>' unless the length is 1, also for an empty range.
C17_Original ==
    \A h \in HunkIds :
        hunks[h].header =
            "@@ -" \o ToString(hunks[h].a_rng[1] + 1) \o LenSuffix(hunks[h].a_rng)
            \o " +" \o ToString(hunks[h].b_rng[1] + 1) \o LenSuffix(hunks[h].b_rng)
            \o " @@\n"

\* the start shown for a range: the line before an empty range
ShownStart(rng) == IF RangeLen(rng) = 0 THEN rng[1] ELSE rng[1] + 1

\* C17 amended: each side of the header shows the range start + 1 for a
\* range that is not empty and the range start for an empty range, then
\* ',<length>' unless the length is 1.
C17_HeaderText ==
    \A h \in HunkIds :
        hunks[h].header =
            "@@ -" \o ToString(ShownStart(hunks[h].a_rng)) \o LenSuffix(hunks[h].a_rng)
            \o " +" \o ToString(ShownStart(hunks[h].b_rng)) \o LenSuffix(hunks[h].b_rng)
            \o " @@\n"

\* an insertion of two lines after line 2, and a hunk with ranges of one line
C17_Witness ==
    /\ \E h \in HunkIds : hunks[h].header = "@@ -2,0 +3,2 @@\n"
    /\ \E h \in HunkIds : hunks[h].header = "@@ -1 +1 @@\n"

----------------------------------------------------------------------------
(* cherry_pick *)

IsDiffText(item) == item.kind = "diff_text"
ApprovedSet == {h \in HunkIds : hunks[h].reviewed = APPR}

\* C18: cherry_pick outputs the diff text of every hunk before the first
\* command is read, then, after the review, the diff text of exactly the
\* Approved hunks in the order of the hunks (or 'None.' when none is
\* Approved), and returns the concatenation of the pieces apply() returns.
C18_CherryPick ==
    /\ (pc = "review" /\ caller = "cherry_pick") =>
          SelectSeq(out, IsDiffText) = [h \in HunkIds |-> DiffText(h)]
    /\ pc = "picked" =>
          LET n == Len(hunks)
              before == SubSeq(out, 1, n + 2)
              after  == SubSeq(out, n + 4, Len(out))
          IN  /\ SelectSeq(before, IsDiffText) = [h \in HunkIds |-> DiffText(h)]
              /\ Len(SelectSeq(before, IsDiffText)) = Len(before) - 2
              /\ ~IsDiffText(out[n + 3])
              /\ IF ApprovedSet = {}
                 THEN after = <<Title("None.")>>
                 ELSE /\ Len(after) = Cardinality(ApprovedSet)
                      /\ \A k \in 1..Len(after) :
                            IsDiffText(after[k]) /\ after[k].hunk \in ApprovedSet
                      /\ \A k \in 1..(Len(after) - 1) :
                            after[k].hunk < after[k + 1].hunk
              /\ text = Join(Patched(1, 0))

\* cherry_pick returned after a review that approved and rejected hunks
C18_Witness ==
    /\ pc = "picked"
    /\ Len(hunks) = 3
    /\ ApprovedSet # {}
    /\ \E h \in HunkIds : hunks[h].reviewed = NOT_APPR
    /\ text # Join(a)
    /\ text # Join(b)

----------------------------------------------------------------------------
(* Statuses *)

\* C19: every hunk is Pending at construction and its status is always one
\* of Pending, Approved, Rejected; a hunk that is not Pending never becomes
\* Pending again, so the number of Pending hunks never increases.
C19_StatusNeverBackToPending ==
    /\ [](/\ \A h \in HunkIds : hunks[h].reviewed \in {PENDING, APPR, NOT_APPR}
          /\ pc = "idle" => AllHunks(PENDING))
    /\ [][/\ Len(hunks') = Len(hunks)
          /\ \A h \in HunkIds :
                hunks[h].reviewed # PENDING => hunks'[h].reviewed # PENDING
          /\ Cardinality({h \in HunkIds : hunks'[h].reviewed = PENDING})
                <= Cardinality({h \in HunkIds : hunks[h].reviewed = PENDING})]_vars

\* the review is on a decided super hunk, which y or n may decide again,
\* while hunks are Approved, Rejected and Pending
C19_Witness ==
    /\ pc = "review"
    /\ ~PendingSuperHunk(position[1])
    /\ \E h \in HunkIds : hunks[h].reviewed = APPR
    /\ \E h \in HunkIds : hunks[h].reviewed = NOT_APPR
    /\ \E h \in HunkIds : hunks[h].reviewed = PENDING

\* C20: during a review all the hunks of each super hunk have the same
\* status, and the assertion of _SuperHunk.reviewed never fails.
C20_UniformStatus ==
    /\ pc # "AssertionError_status"
    /\ pc = "review" =>
          \A k \in 0..(Len(super_hunks) - 1) :
              \A g, h \in Members(k) : hunks[g].reviewed = hunks[h].reviewed

\* a super hunk of two hunks was decided, another super hunk is Pending
C20_Witness ==
    /\ pc = "review"
    /\ Len(super_hunks) = 2
    /\ Cardinality(Members(0)) = 2
    /\ \A h \in Members(0) : hunks[h].reviewed = NOT_APPR
    /\ PendingSuperHunk(1)

----------------------------------------------------------------------------
(* Context of a super hunk *)

\* the super hunks of the grouping made at construction and of the review
SuperHunkSet ==
    {_super_hunks[k] : k \in 1..Len(_super_hunks)}
        \cup {super_hunks[k] : k \in 1..Len(super_hunks)}

FirstOf(sh) == sh._hunks[1]
LastOf(sh) == sh._hunks[Len(sh._hunks)]

\* C21: the pre_context of a super hunk is the pre_context of its first
\* hunk and its post_context is the post_context of its last hunk, for
\* super hunks of any size.
C21_SuperHunkContext ==
    \A sh \in SuperHunkSet :
        /\ sh.pre_context = hunks[FirstOf(sh)].pre_context
        /\ sh.post_context = hunks[LastOf(sh)].post_context

\* the line of a where the unchanged text after hunk h ends: the start of
\* the next hunk, or the end of a
NextStart(h) == IF h < Len(hunks) THEN hunks[h + 1].a_rng[1] ELSE Len(a)

\* the line of a where the unchanged text before hunk h starts
PrevEnd(h) == IF h > 1 THEN hunks[h - 1].a_rng[2] ELSE 0

\* C22: the window shown for a super hunk is its a range and its b range
\* extended by min(pre_context, context) lines before and by
\* min(post_context, context) lines after, and never by more unchanged lines
\* than there are: the window of a stays within [0, len(a)], starts at or
\* after the end of the hunk before its first hunk and ends at or before
\* the start of the hunk after its last hunk.
C22_ContextRange ==
    \A sh \in SuperHunkSet :
        LET window == _get_context_range(context, sh)
        IN  /\ window[1][1] = sh.a_rng[1] - Min(sh.pre_context, context)
            /\ window[1][2] = sh.a_rng[2] + Min(sh.post_context, context)
            /\ window[2][1] = sh.b_rng[1] - Min(sh.pre_context, context)
            /\ window[2][2] = sh.b_rng[2] + Min(sh.post_context, context)
            /\ 0 <= window[1][1]
            /\ window[1][2] <= Len(a)
            /\ PrevEnd(FirstOf(sh)) <= window[1][1]
            /\ window[1][2] <= NextStart(LastOf(sh))

----------------------------------------------------------------------------
(* review_hunks() without a Pending hunk *)

\* C30: review_hunks() called when no hunk is Pending returns without
\* failing, without reading a command and without changing a hunk status,
\* for every context.
C30_ReviewWithoutPending ==
    [][(review_hunks /\ NoHunkPending) =>
        /\ pc' = "reviewed"
        /\ hunks' = hunks]_vars

----------------------------------------------------------------------------
(* What a review keeps *)

\* a hunk but for its status
Unreviewed(hunk) == [hunk EXCEPT !.reviewed = PENDING]

\* C24: no command changes the sequence of hunks that the super hunks of
\* the session make up (only s changes the number of super hunks), and the
\* review never modifies the list of hunks, the blocks or the grouping made
\* at construction.
C24_SessionKeepsHunks ==
    [][/\ blocks' = blocks
       /\ _super_hunks' = _super_hunks
       /\ Len(hunks') = Len(hunks)
       /\ \A h \in HunkIds : Unreviewed(hunks'[h]) = Unreviewed(hunks[h])
       /\ pc = "review" =>
             /\ Flatten(super_hunks') = Flatten(super_hunks)
             /\ Len(super_hunks') # Len(super_hunks) => choice_s]_vars

\* a super hunk of two hunks was split and one of its hunks decided, in a
\* session of three hunks
C24_Witness ==
    /\ pc = "review"
    /\ Len(_super_hunks) = 2
    /\ Len(super_hunks) = 3
    /\ Flatten(super_hunks) = <<1, 2, 3>>
    /\ \E h \in HunkIds : hunks[h].reviewed = APPR
    /\ position = Some(2)

----------------------------------------------------------------------------
(* Position *)

\* every hunk of super hunk k (0-based) of shs is Pending in H
AllPendingIn(H, shs, k) ==
    \A m \in 1..Len(shs[k + 1]._hunks) : H[shs[k + 1]._hunks[m]].reviewed = PENDING

\* the number of super hunks of shs that are Pending in H
NumPending(H, shs) ==
    Cardinality({k \in 0..(Len(shs) - 1) : AllPendingIn(H, shs, k)})

\* C27: when a command is read position is an integer with
\* 0 <= position < number of super hunks; no command makes the loop fail on
\* position, and position becomes undefined only when no hunk of the
\* session is Pending any more.
C27_PositionInRange ==
    /\ [](pc = "review" =>
            /\ position # None
            /\ 0 <= position[1]
            /\ position[1] < Len(super_hunks))
    /\ [][pc = "review" =>
            /\ pc' \notin {"TypeError", "IndexError"}
            /\ position' = None =>
                  \A k \in 1..Len(Flatten(super_hunks')) :
                      hunks'[Flatten(super_hunks')[k]].reviewed # PENDING]_vars

\* the review of three super hunks ended with a, position being undefined
C27_Witness ==
    /\ pc = "reviewed"
    /\ position = None
    /\ Len(super_hunks) = 3
    /\ AllHunks(APPR)

\* C28: after y, n, a or d, if a hunk of the session is still Pending,
\* position is on a super hunk whose hunks are all Pending; only g, J and K
\* move position to a decided super hunk.
C28_PositionOnPending ==
    [][(pc = "review" /\ pc' = "review") =>
        /\ (\/ \E choice \in {"y", "n"} : choice_yn(choice)
            \/ \E choice \in {"a", "d"} : choice_ad(choice))
              => AllPendingIn(hunks', super_hunks', position'[1])
        /\ (position' # position
                /\ ~AllPendingIn(hunks', super_hunks', position'[1]))
              => \/ \E next_hunk \in GoAnswers : choice_g(next_hunk)
                 \/ choice_J
                 \/ choice_K]_vars

\* a on the second of three super hunks: position is back on the first,
\* which is Pending
C28_Witness ==
    /\ pc = "review"
    /\ Len(super_hunks) = 3
    /\ position = Some(0)
    /\ PendingSuperHunk(0)
    /\ \A h \in Members(1) \cup Members(2) : hunks[h].reviewed = APPR

\* C29: when only y and n are answered, every super hunk is Pending at
\* entry, each answer is given on a Pending super hunk and decides it and no
\* other, and the loop goes on exactly while a super hunk is Pending: the
\* review ends after as many answers as there were super hunks at entry.
C29_OnlyYesNoTerminates ==
    /\ [](pc = "review" => PendingSuperHunk(position[1]))
    /\ [][/\ (pc # "review" /\ pc' = "review") =>
                NumPending(hunks', super_hunks') = Len(super_hunks')
          /\ (\E choice \in {"y", "n"} : choice_yn(choice)) =>
                /\ super_hunks' = super_hunks
                /\ NumPending(hunks', super_hunks')
                      = NumPending(hunks, super_hunks) - 1
                /\ pc' = "review" <=> NumPending(hunks', super_hunks') > 0
                /\ pc' # "review" => pc' \in {"reviewed", "applied"}]_vars

\* three super hunks were decided by three answers
C29_Witness ==
    /\ pc = "reviewed"
    /\ Len(super_hunks) = 3
    /\ NumPending(hunks, super_hunks) = 0
    /\ hunks[1].reviewed = APPR
    /\ hunks[2].reviewed = NOT_APPR
    /\ hunks[3].reviewed = APPR

----------------------------------------------------------------------------
(* Sessions over a part of the hunks *)

\* C23: a review session is built over exactly the hunks that are Pending
\* when review_hunks() is entered, in their order in the list of hunks, with
\* position 0; a hunk that is decided at entry is in no super hunk of the
\* session and no command changes its status.
C23_SessionOverPending ==
    /\ [](pc = "review" =>
            \A h \in HunkIds \ SessionHunks : hunks[h].reviewed # PENDING)
    /\ [][/\ (pc # "review" /\ pc' = "review") =>
               LET session == Flatten(super_hunks')
               IN  /\ \A i, j \in 1..Len(session) :
                          i < j => session[i] < session[j]
                   /\ {session[i] : i \in 1..Len(session)}
                          = {h \in HunkIds : hunks[h].reviewed = PENDING}
                   /\ position' = Some(0)
          /\ pc = "review" =>
               \A h \in HunkIds \ SessionHunks :
                   hunks'[h].reviewed = hunks[h].reviewed]_vars

\* the second of three hunks was approved before the review was entered:
\* the session is made of the first and the third, the first was rejected
\* in it
C23_Witness ==
    /\ pc = "review"
    /\ Len(hunks) = 3
    /\ SessionHunks = {1, 3}
    /\ hunks[2].reviewed = APPR
    /\ hunks[1].reviewed = NOT_APPR
    /\ position = Some(1)

----------------------------------------------------------------------------
(* Emphasis.  Lines of the plain diff are designated by their index in     *)
(* diff.                                                                   *)

IsColor(token) == Len(token) > 1
Removed(j) == j \in 1..Len(diff) /\ diff[j][1] = "-"
Added(j) == j \in 1..Len(diff) /\ diff[j][1] = "+"
Hint(j) == j \in 1..Len(diff) /\ diff[j][1] = "?"

\* the colored lines of a colored text: a line ends with its line feed and
\* the color that follows it, if any
RECURSIVE ColoredLines(_, _)
ColoredLines(colored, line) ==
    IF colored = <<>> THEN (IF line = <<>> THEN <<>> ELSE <<line>>)
    ELSE IF Head(colored) = "\n"
    THEN IF Len(colored) > 1 /\ colored[2] = "\\03{default}"
         THEN <<line \o <<"\n", colored[2]>> >>
                  \o ColoredLines(Tail(Tail(colored)), <<>>)
         ELSE <<Append(line, "\n")>> \o ColoredLines(Tail(colored), <<>>)
    ELSE ColoredLines(Tail(colored), Append(line, Head(colored)))

\* the positions of the characters of a colored line that are written in a
\* color (n characters read, on: a color is open)
RECURSIVE Emphasized(_, _, _)
Emphasized(colored, n, on) ==
    IF colored = <<>> THEN {}
    ELSE IF IsColor(Head(colored))
    THEN Emphasized(Tail(colored), n, Head(colored) # "\\03{default}")
    ELSE (IF on THEN {n + 1} ELSE {}) \cup Emphasized(Tail(colored), n + 1, on)

\* the colored line of the line j of diff, which is added or removed
Rank(j) == Cardinality({i \in 1..j : Removed(i) \/ Added(i)})
ColoredLine(j) == ColoredLines(diff_text, <<>>)[Rank(j)]
Whole(j) == Emphasized(ColoredLine(j), 0, FALSE) = 1..Len(diff[j])

\* line j is emphasized where hint line k has a mark (and on its sign)
ByHint(j, k) ==
    Emphasized(ColoredLine(j), 0, FALSE)
        = {i \in 1..Len(diff[j]) :
              i <= Len(diff[k]) /\ diff[k][i] \notin {" ", "\n"}}

\* the colored text is the added and removed lines of diff, with colors
Colored ==
    /\ Len(ColoredLines(diff_text, <<>>)) = Rank(Len(diff))
    /\ \A j \in 1..Len(diff) :
          Removed(j) \/ Added(j) =>
              SelectSeq(ColoredLine(j), LAMBDA t : ~IsColor(t)) = diff[j]

\* the statement of C25 as it was made: an added line that no hint line
\* precedes is emphasized over its whole length
C25_Original ==
    pc = "formatted" =>
        \A j \in 1..Len(diff) :
            /\ (Removed(j) /\ ~Hint(j + 1)) => Whole(j)
            /\ (Added(j) /\ ~Hint(j - 1)) => Whole(j)

\* C25: in the colored diff a removed line that is not immediately followed
\* by a hint line is emphasized over its whole length, and so is an added
\* line that is neither immediately preceded nor immediately followed by a
\* hint line.
C25_WholeLine ==
    pc = "formatted" =>
        /\ Colored
        /\ \A j \in 1..Len(diff) :
              /\ (Removed(j) /\ ~Hint(j + 1)) => Whole(j)
              /\ (Added(j) /\ ~Hint(j - 1) /\ ~Hint(j + 1)) => Whole(j)

\* a diff with a hint line, a removed line without hint and, after it, an
\* added line without hint, both emphasized as a whole
C25_Witness ==
    /\ pc = "formatted"
    /\ \E k \in 1..Len(diff) : Hint(k)
    /\ \E j \in 1..Len(diff) :
          /\ Removed(j) /\ ~Hint(j + 1) /\ Whole(j)
          /\ Added(j + 1) /\ ~Hint(j + 2) /\ Whole(j + 1)

\* the statement of C26 as it was made: the line after a hint line is not
\* emphasized by that hint line, which the line before it has used
C26_Original ==
    pc = "formatted" =>
        \A k \in 1..Len(diff) :
            (Hint(k) /\ (Removed(k + 1) \/ Added(k + 1)) /\ ~Hint(k + 2))
                => ~ByHint(k + 1, k)

\* C26: the line that a hint line follows is emphasized by it; a hint line
\* that follows an added line emphasizes no second line: the line after it,
\* without a hint line of its own, is emphasized as a whole; a hint line
\* that follows a removed line also emphasizes the added line right after
\* it when this one has no hint line of its own, and no other line.
C26_HintUse ==
    pc = "formatted" =>
        \A k \in 1..Len(diff) :
            Hint(k) =>
                /\ ByHint(k - 1, k)
                /\ ((Removed(k + 1) \/ Added(k + 1)) /\ ~Hint(k + 2)) =>
                      IF Removed(k - 1) /\ Added(k + 1)
                      THEN ByHint(k + 1, k)
                      ELSE Whole(k + 1)

\* an added line with its hint line, then an added line without: it is
\* emphasized as a whole
C26_Witness ==
    /\ pc = "formatted"
    /\ \E k \in 1..Len(diff) :
          /\ Hint(k)
          /\ Added(k - 1)
          /\ Added(k + 1)
          /\ ~Hint(k + 2)
          /\ Whole(k + 1)

====
